---- MODULE Spec2Model ----
(***************************************************************************)
(* Login rate limiter of src/middleware/validation.ts: the module-level    *)
(* loginAttempts map, validateLogin, the res.send hook installed by        *)
(* trackLoginResult, cleanOldAttempts and getLoginStats.  Times are        *)
(* milliseconds since the process started (Date.getTime()).                *)
(***************************************************************************)
EXTENDS Integers, Sequences, FiniteSets, TLC

(* ---------------------------- bounds ----------------------------------- *)
\* one client: number of clock advances explored, and login requests
\* admitted and not yet answered
MaxTicks == 3
MaxInFlight == 2
\* two clients: the same two bounds
MaxTicksPair == 2
MaxInFlightPair == 1
\* largest count a record starts with in SpecWide
MaxInitCount == 21
\* one client with many requests unanswered at once: the same two bounds
MaxTicksDeep == 2
MaxInFlightDeep == 6
\* one client whose requests do not overlap: number of clock advances
MaxTicksSerial == 3
\* one client followed with the lockouts and answers it was given: number of
\* clock advances and of requests unanswered at once
MaxTicksTrace == 2
MaxInFlightTrace == 2
\* number of times the hourly timer is followed
MaxIntervals == 26

(* ------------------------ program constants ---------------------------- *)
MinuteMs == 60 * 1000
\* validateLogin: 15 * 60 * 1000
WindowMs == 15 * 60 * 1000
\* cleanOldAttempts: 24 * 60 * 60 * 1000
MaxAgeMs == 24 * 60 * 60 * 1000
\* setInterval(cleanOldAttempts, 60 * 60 * 1000)
SweepEveryMs == 60 * 60 * 1000
\* getLoginStats: 60 * 60 * 1000
RecentMs == 60 * 60 * 1000
\* validateLogin: attempt.count >= 5
Threshold == 5
MaxEmailLen == 254
MaxPasswordLen == 128

(* ------------------------------ inputs --------------------------------- *)
Clients == {"a", "b"}

\* blockedUntil?: Date  -- the field is absent (undefined)
NoDate == -1

\* clock advances: 1 s, the 15 minute window, the 24 hour sweep age
Steps == {1000, WindowMs, MaxAgeMs}
\* the advances explored with two clients
StepsPair == {1000, MaxAgeMs}

\* req.body after sanitizeInput: the email (length, whether it matches
\* /^[^\s@]+@[^\s@]+\.[^\s@]+$/) and the password (length); length 0 is a
\* missing or empty field
Bodies ==
  { [emailLen |-> 0,   emailOk |-> FALSE, passwordLen |-> 8],
    [emailLen |-> 20,  emailOk |-> TRUE,  passwordLen |-> 0],
    [emailLen |-> 20,  emailOk |-> FALSE, passwordLen |-> 8],
    [emailLen |-> 255, emailOk |-> TRUE,  passwordLen |-> 8],
    [emailLen |-> 20,  emailOk |-> TRUE,  passwordLen |-> 129],
    [emailLen |-> 254, emailOk |-> TRUE,  passwordLen |-> 128],
    [emailLen |-> 20,  emailOk |-> TRUE,  passwordLen |-> 8] }

\* status codes the login controller answers an admitted request with; its
\* 404 and 500 take the same branch of the hook as 429 and 503
Statuses == {200, 401, 403, 429, 503}

\* the bodies and statuses explored with two clients
BodiesPair == {b \in Bodies : b.emailLen = 20 /\ b.passwordLen = 8}
StatusesPair == {200, 401, 503}

(* ----------------------------- helpers --------------------------------- *)
Min(a, b) == IF a < b THEN a ELSE b

\* Math.ceil(a / b) for b > 0
Ceil(a, b) == IF a % b = 0 THEN a \div b ELSE (a \div b) + 1

\* delete called with a key the map does not hold
MapDeleteWrongKey(m, ip) == m

\* loginAttempts.clear() in place of delete(ip)
MapDeleteAll(m, ip) == [x \in {} |-> m[x]]

\* Map.prototype.delete / set / get on loginAttempts
MapDelete(m, ip) == [x \in DOMAIN m \ {ip} |-> m[x]]
MapSet(m, ip, r) == [x \in DOMAIN m \cup {ip} |-> IF x = ip THEN r ELSE m[x]]
MapHas(m, ip) == ip \in DOMAIN m
EmptyMap == [x \in {} |-> [count |-> 0, lastAttempt |-> 0, blockedUntil |-> NoDate]]

\* { count: 0, lastAttempt: now }
FreshAttempt(t) == [count |-> 0, lastAttempt |-> t, blockedUntil |-> NoDate]

(* ------------------- validateLogin, lines 173-252 ---------------------- *)
\* the comparison of the lockout check turned around
isBlockedReversed(attempt, t) ==
  attempt.blockedUntil # NoDate /\ t > attempt.blockedUntil

\* attempt.blockedUntil && now < attempt.blockedUntil
isBlocked(attempt, t) ==
  attempt.blockedUntil # NoDate /\ t < attempt.blockedUntil

\* Math.floor in place of Math.ceil
minutesLeftFloor(attempt, t) == (attempt.blockedUntil - t) \div MinuteMs

\* Math.ceil((attempt.blockedUntil.getTime() - now.getTime()) / (60 * 1000))
minutesLeft(attempt, t) == Ceil(attempt.blockedUntil - t, MinuteMs)

\* 15 * 1000 in place of 15 * 60 * 1000
windowExpiredSeconds(attempt, t) == t - attempt.lastAttempt > 15 * 1000

\* >= in place of >
windowExpiredInclusive(attempt, t) == t - attempt.lastAttempt >= WindowMs

\* now.getTime() - attempt.lastAttempt.getTime() > 15 * 60 * 1000
windowExpired(attempt, t) == t - attempt.lastAttempt > WindowMs

\* Math.floor in place of Math.ceil
blockMinutesFloor(count) == Min(15 * (count \div 5), 60)

\* the cap of 60 minutes left out
blockMinutesUncapped(count) == 15 * Ceil(count, 5)

\* Math.min(15 * Math.ceil(attempt.count / 5), 60)
blockMinutes(count) == Min(15 * Ceil(count, 5), 60)

\* the threshold of the security alert (attempt.count >= 3) in place of 5
overThresholdAlert(attempt) == attempt.count >= 3

\* > in place of >=
overThresholdStrict(attempt) == attempt.count > Threshold

\* attempt.count >= 5
overThreshold(attempt) == attempt.count >= Threshold

\* attempt.lastAttempt = now left out
escalateKeepsLastAttempt(attempt, t) ==
  [attempt EXCEPT !.blockedUntil = t + blockMinutes(attempt.count) * MinuteMs]

\* the escalation branch: attempt.blockedUntil and attempt.lastAttempt are
\* assigned in place and the record is stored again
escalate(attempt, t) ==
  [attempt EXCEPT !.blockedUntil = t + blockMinutes(attempt.count) * MinuteMs,
                  !.lastAttempt = t]

\* the two length checks left out
validationErrorsNoLength(body) ==
  (IF body.emailLen = 0 THEN <<"Email es requerido">> ELSE <<>>)
  \o (IF body.passwordLen = 0 THEN <<"Contrasena es requerida">> ELSE <<>>)
  \o (IF body.emailLen # 0 /\ ~body.emailOk
        THEN <<"Formato de email invalido">> ELSE <<>>)

\* the errors array built from email and password
validationErrors(body) ==
  (IF body.emailLen = 0 THEN <<"Email es requerido">> ELSE <<>>)
  \o (IF body.passwordLen = 0 THEN <<"Contrasena es requerida">> ELSE <<>>)
  \o (IF body.emailLen # 0 /\ ~body.emailOk
        THEN <<"Formato de email invalido">> ELSE <<>>)
  \o (IF body.emailLen # 0 /\ body.emailLen > MaxEmailLen
        THEN <<"Email demasiado largo">> ELSE <<>>)
  \o (IF body.passwordLen # 0 /\ body.passwordLen > MaxPasswordLen
        THEN <<"Contrasena demasiado larga">> ELSE <<>>)

\* currentAttempt.count++ left out
countInvalidUncounted(m, ip, t) ==
  LET currentAttempt == IF MapHas(m, ip) THEN m[ip] ELSE FreshAttempt(t)
  IN  MapSet(m, ip, [currentAttempt EXCEPT !.lastAttempt = t])

\* errors.length > 0: the malformed attempt is counted
countInvalid(m, ip, t) ==
  LET currentAttempt == IF MapHas(m, ip) THEN m[ip] ELSE FreshAttempt(t)
  IN  MapSet(m, ip, [currentAttempt EXCEPT !.count = @ + 1, !.lastAttempt = t])

\* the admitted attempt stored with lastAttempt = now
validateBodyRefreshing(m, ip, body, t) ==
  LET errors == validationErrors(body)
  IN  IF Len(errors) > 0
        THEN [map |-> countInvalid(m, ip, t), status |-> 400, retryAfter |-> 0,
              details |-> errors, next |-> FALSE]
        ELSE [map |-> IF MapHas(m, ip)
                        THEN MapSet(m, ip, [m[ip] EXCEPT !.lastAttempt = t])
                        ELSE m,
              status |-> 0, retryAfter |-> 0, details |-> <<>>, next |-> TRUE]

\* the part of validateLogin after the rate limiting block, run on map m
validateBody(m, ip, body, t) ==
  LET errors == validationErrors(body)
  IN  IF Len(errors) > 0
        THEN [map |-> countInvalid(m, ip, t), status |-> 400, retryAfter |-> 0,
              details |-> errors, next |-> FALSE]
        ELSE [map |-> m, status |-> 0, retryAfter |-> 0,
              details |-> <<>>, next |-> TRUE]

\* validateLogin as a function of the map, the request and the clock: the
\* map it leaves, the response it sends (status 0: none) and whether it
\* calls next()
validateLogin(m, ip, body, t) ==
  IF MapHas(m, ip)
    THEN LET attempt == m[ip]
         IN  IF isBlocked(attempt, t)
               THEN [map |-> m, status |-> 429,
                     retryAfter |-> minutesLeft(attempt, t) * 60,
                     details |-> <<>>, next |-> FALSE]
               ELSE IF windowExpired(attempt, t)
                 THEN validateBody(MapDelete(m, ip), ip, body, t)
                 ELSE IF overThreshold(attempt)
                   THEN [map |-> MapSet(m, ip, escalate(attempt, t)),
                         status |-> 429,
                         retryAfter |-> blockMinutes(attempt.count) * 60,
                         details |-> <<>>, next |-> FALSE]
                   ELSE validateBody(m, ip, body, t)
    ELSE validateBody(m, ip, body, t)

(* ----------------- trackLoginResult, lines 304-347 --------------------- *)
\* the failure counted twice (the hook run again by a nested send)
countFailureTwice(m, ip, t) ==
  LET attempt == IF MapHas(m, ip) THEN m[ip] ELSE FreshAttempt(t)
  IN  MapSet(m, ip, [attempt EXCEPT !.count = @ + 2, !.lastAttempt = t])

\* the record stored again as a new { count, lastAttempt } object
countFailureFresh(m, ip, t) ==
  LET attempt == IF MapHas(m, ip) THEN m[ip] ELSE FreshAttempt(t)
  IN  MapSet(m, ip, [FreshAttempt(t) EXCEPT !.count = attempt.count + 1])

\* the lockout assigned already by the failure that reaches the threshold
countFailureLocking(m, ip, t) ==
  LET attempt == IF MapHas(m, ip) THEN m[ip] ELSE FreshAttempt(t)
      counted == [attempt EXCEPT !.count = @ + 1, !.lastAttempt = t]
  IN  MapSet(m, ip,
             IF counted.count >= Threshold
               THEN [counted EXCEPT !.blockedUntil =
                       t + blockMinutes(counted.count) * MinuteMs]
               ELSE counted)

\* statusCode 401 or 403: the failure is counted
countFailure(m, ip, t) ==
  LET attempt == IF MapHas(m, ip) THEN m[ip] ELSE FreshAttempt(t)
  IN  MapSet(m, ip, [attempt EXCEPT !.count = @ + 1, !.lastAttempt = t])

\* every answer that is not a success counted as a failure
sendHookCountsErrors(m, ip, statusCode, t) ==
  IF statusCode = 200 \/ statusCode = 201
    THEN MapDelete(m, ip)
    ELSE countFailure(m, ip, t)

\* the record deleted by every answer that is not a failure
sendHookClearsUnlessFailure(m, ip, statusCode, t) ==
  IF statusCode = 401 \/ statusCode = 403
    THEN countFailure(m, ip, t)
    ELSE MapDelete(m, ip)

\* only 201 taken as a success
sendHookCreatedOnly(m, ip, statusCode, t) ==
  IF statusCode = 201
    THEN MapDelete(m, ip)
    ELSE IF statusCode = 401 \/ statusCode = 403
      THEN countFailure(m, ip, t)
      ELSE m

\* the replaced res.send, run when the controller answers
sendHook(m, ip, statusCode, t) ==
  IF statusCode = 200 \/ statusCode = 201
    THEN MapDelete(m, ip)
    ELSE IF statusCode = 401 \/ statusCode = 403
      THEN countFailure(m, ip, t)
      ELSE m

(* ------------------- cleanOldAttempts, lines 24-31 --------------------- *)
\* < in place of >: the recent records deleted, the old ones kept
cleanOldAttemptsReversed(m, t) ==
  [ip \in {x \in DOMAIN m : ~(t - m[x].lastAttempt < MaxAgeMs)} |-> m[ip]]

\* the loop left after the first record it deletes
cleanOldAttemptsFirstOnly(m, t) ==
  LET old == {x \in DOMAIN m : t - m[x].lastAttempt > MaxAgeMs}
  IN  IF old = {} THEN m ELSE MapDelete(m, CHOOSE x \in old : TRUE)

\* >= in place of >
cleanOldAttemptsInclusive(m, t) ==
  [ip \in {x \in DOMAIN m : ~(t - m[x].lastAttempt >= MaxAgeMs)} |-> m[ip]]

cleanOldAttempts(m, t) ==
  [ip \in {x \in DOMAIN m : ~(t - m[x].lastAttempt > MaxAgeMs)} |-> m[ip]]

(* -------------------- getLoginStats, lines 388-407 --------------------- *)
\* <= in place of < in the test of the last hour
getLoginStatsInclusive(m, t) ==
  [totalAttempts |-> Cardinality(DOMAIN m),
   blockedIPs |-> Cardinality({x \in DOMAIN m : isBlocked(m[x], t)}),
   recentAttempts |->
     Cardinality({x \in DOMAIN m : t - m[x].lastAttempt <= RecentMs})]

\* { totalAttempts, blockedIPs, recentAttempts }
getLoginStats(m, t) ==
  [totalAttempts |-> Cardinality(DOMAIN m),
   blockedIPs |-> Cardinality({x \in DOMAIN m : isBlocked(m[x], t)}),
   recentAttempts |->
     Cardinality({x \in DOMAIN m : t - m[x].lastAttempt < RecentMs})]

(* ------ updateStudentModule and toggleModuleForAllStudents ------------- *)
\* the administrators' requests followed, the module ids they set, and the
\* two handlers
Callers == {"c1", "c2"}
ModuleIds == {"m1", "m2"}
Handlers == {"updateStudentModule", "toggleModuleForAllStudents"}

\* userData?.modulos_habilitados || {}
NoModules == [x \in {} |-> FALSE]

\* modulosHabilitados[moduleId] = enabled
ModSet(m, moduleId, enabled) ==
  [x \in DOMAIN m \cup {moduleId} |-> IF x = moduleId THEN enabled ELSE m[x]]

\* the user document: absent, or present with its modulos_habilitados map
NoUser == [exists |-> FALSE, modulos_habilitados |-> NoModules]
Users ==
  {NoUser,
   [exists |-> TRUE, modulos_habilitados |-> NoModules],
   [exists |-> TRUE, modulos_habilitados |-> ModSet(NoModules, "m1", FALSE)]}

\* a request to one of the two handlers: the module id and the value it sets,
\* whether validateUser accepts it, whether enabled is a boolean, whether the
\* materia and the module exist and belong together, and whether the user
\* has a course with the materia (the last two are read by
\* toggleModuleForAllStudents only); pc is the await the call stands at,
\* modulosHabilitados its local map, status the answer it sent (0: none)
Requests ==
  [handler : Handlers, moduleId : ModuleIds, enabled : BOOLEAN,
   authorized : BOOLEAN, enabledIsBoolean : BOOLEAN,
   materiaOk : BOOLEAN, userHasCourse : BOOLEAN,
   pc : {"start"}, modulosHabilitados : {NoModules}, status : {0},
   wrote : {FALSE}]

\* a request every check lets through
ValidRequests ==
  {r \in Requests :
     r.authorized /\ r.enabledIsBoolean /\ r.materiaOk /\ r.userHasCourse}

\* no request was made
IdleCall ==
  [handler |-> "updateStudentModule", moduleId |-> "m1", enabled |-> FALSE,
   authorized |-> FALSE, enabledIsBoolean |-> FALSE,
   materiaOk |-> FALSE, userHasCourse |-> FALSE,
   pc |-> "idle", modulosHabilitados |-> NoModules, status |-> 0,
   wrote |-> FALSE]

(* ------------------------------ state ---------------------------------- *)
\* loginAttempts : the Map, a function from the keys present to records
\* now           : the clock, new Date().getTime()
\* ticks         : number of clock advances so far
\* inflight      : per client, requests past trackLoginResult whose response
\*                 has not been sent yet
\* res           : the last step: which handler ran, for which client, what
\*                 it answered, and the map and history it started from
\* hist          : per client, what has been recorded so far (history only,
\*                 read by no handler): streak, the number of consecutive
\*                 recorded failures, each within the window of the previous
\*                 one and with no success in between (counted up to
\*                 Threshold); streakAt, the time of the last of them;
\*                 failedSinceLock, whether the record holds a blockedUntil
\*                 and a failure was recorded after it was assigned;
\*                 failures, the number of failures recorded (answers 400 of
\*                 validateLogin, answers 401 and 403 of the controller)
\*                 since the record the map holds was created; retryAt,
\*                 the time the last 429 told the client to come back at
\*                 (now + retryAfter seconds), if nothing of the client has
\*                 run since; lockedUntil, the blockedUntil last assigned
\*                 for the client, while it lies ahead; lifted, whether a
\*                 success was recorded since it was assigned
\* user          : the document users/{id} the module requests are about
\* calls         : per administrator request, its inputs and where it stands
VARIABLES loginAttempts, now, ticks, inflight, res, hist, user, calls
vars == <<loginAttempts, now, ticks, inflight, res, hist, user, calls>>

NoStats == [totalAttempts |-> 0, blockedIPs |-> 0, recentAttempts |-> 0]
NoHist ==
  [streak |-> 0, streakAt |-> 0, failedSinceLock |-> FALSE, failures |-> 0,
   retryAt |-> NoDate, lockedUntil |-> NoDate, lifted |-> FALSE]

\* a step that answers nothing
Quiet(op) ==
  [op |-> op, ip |-> "", status |-> 0, retryAfter |-> 0, next |-> FALSE,
   wellFormed |-> TRUE, stats |-> NoStats, before |-> loginAttempts,
   hist |-> NoHist]

\* a login body of the required shape: email and password present, the email
\* matching the pattern, at most 254 and 128 characters
WellFormed(body) ==
  /\ body.emailLen \in 1..MaxEmailLen
  /\ body.emailOk
  /\ body.passwordLen \in 1..MaxPasswordLen

\* the history after a failure of the client is recorded at time t
HistFailure(h, t) ==
  [h EXCEPT !.streak = IF h.streak > 0 /\ t - h.streakAt <= WindowMs
                         THEN Min(h.streak + 1, Threshold) ELSE 1,
            !.streakAt = t,
            !.failedSinceLock = TRUE,
            !.failures = @ + 1]

\* the history after a success of the client is recorded
HistSuccess(h) == [h EXCEPT !.streak = 0, !.streakAt = 0]

\* the record of client ip in map m is deleted by a validateLogin call at
\* time t: no lockout in force and more than 15 minutes idle
HistPurged(m, ip, t) ==
  /\ MapHas(m, ip)
  /\ m[ip].blockedUntil = NoDate \/ t >= m[ip].blockedUntil
  /\ t - m[ip].lastAttempt > WindowMs

\* the history after the record is deleted
HistReset(h) == [h EXCEPT !.failures = 0]

\* the history after blockedUntil is assigned
HistLock(h) == [h EXCEPT !.failedSinceLock = FALSE]

\* the history next to map m: failedSinceLock speaks of a record that holds
\* a blockedUntil, failures of a record that exists
Settle(h, m) ==
  [c \in Clients |->
     [h[c] EXCEPT !.failedSinceLock =
                    /\ h[c].failedSinceLock
                    /\ MapHas(m, c)
                    /\ m[c].blockedUntil # NoDate,
                  !.failures = IF MapHas(m, c) THEN @ ELSE 0]]

Init ==
  /\ loginAttempts = EmptyMap
  /\ now = 0
  /\ ticks = 0
  /\ inflight = [c \in Clients |-> 0]
  /\ res = Quiet("init")
  /\ hist = [c \in Clients |-> NoHist]
  /\ user = NoUser
  /\ calls = [c \in Callers |-> IdleCall]

\* POST /login: sanitizeInput, validateLogin, then (if next() is called)
\* trackLoginResult installs the hook and the controller starts its fetch;
\* at most maxFlight admitted requests of a client are explored
Login(ip, body, maxFlight) ==
  LET r == validateLogin(loginAttempts, ip, body, now)
  IN  /\ r.next => inflight[ip] < maxFlight
      /\ loginAttempts' = r.map
      /\ inflight' = IF r.next THEN [inflight EXCEPT ![ip] = @ + 1] ELSE inflight
      /\ res' = [op |-> "validateLogin", ip |-> ip, status |-> r.status,
                 retryAfter |-> r.retryAfter, next |-> r.next,
                 wellFormed |-> WellFormed(body),
                 stats |-> NoStats, before |-> loginAttempts,
                 hist |-> hist[ip]]
      /\ UNCHANGED <<now, ticks, user, calls>>

\* the controller answers an admitted request: res.json -> the hooked res.send
Send(ip, statusCode) ==
  /\ inflight[ip] > 0
  /\ inflight' = [inflight EXCEPT ![ip] = @ - 1]
  /\ loginAttempts' = sendHook(loginAttempts, ip, statusCode, now)
  /\ res' = [Quiet("send") EXCEPT !.ip = ip, !.status = statusCode,
                                  !.hist = hist[ip]]
  /\ UNCHANGED <<now, ticks, user, calls>>

\* the setInterval callback
Sweep ==
  /\ loginAttempts' = cleanOldAttempts(loginAttempts, now)
  /\ res' = Quiet("sweep")
  /\ UNCHANGED <<now, ticks, inflight, user, calls>>

Stats ==
  /\ res' = [Quiet("stats") EXCEPT !.stats = getLoginStats(loginAttempts, now)]
  /\ UNCHANGED <<loginAttempts, now, ticks, inflight, user, calls>>

\* time passes; at most maxTicks advances are explored
Tick(d, maxTicks) ==
  /\ ticks < maxTicks
  /\ now' = now + d
  /\ ticks' = ticks + 1
  /\ res' = Quiet("tick")
  /\ UNCHANGED <<loginAttempts, inflight, user, calls>>

\* the history kept next to a validateLogin call
LoginHist(ip, body) ==
  LET r == validateLogin(loginAttempts, ip, body, now)
  IN  hist' = Settle(IF r.status = 400
                       THEN [hist EXCEPT ![ip] =
                               HistFailure(IF HistPurged(loginAttempts, ip, now)
                                             THEN HistReset(@) ELSE @, now)]
                       ELSE IF r.status = 429 /\ r.map # loginAttempts
                         THEN [hist EXCEPT ![ip] = HistLock(@)]
                         ELSE hist,
                     r.map)

\* the history kept next to a recorded outcome
SendHist(ip, statusCode) ==
  hist' = Settle(IF statusCode \in {200, 201}
                   THEN [hist EXCEPT ![ip] = HistSuccess(@)]
                   ELSE IF statusCode \in {401, 403}
                     THEN [hist EXCEPT ![ip] = HistFailure(@, now)]
                     ELSE hist,
                 sendHook(loginAttempts, ip, statusCode, now))

\* the lockout and the answer remembered next to a validateLogin call
LoginTrace(ip, body) ==
  LET r == validateLogin(loginAttempts, ip, body, now)
      locks == r.status = 429 /\ r.map # loginAttempts
  IN  hist' = [hist EXCEPT
                 ![ip].retryAt = IF r.status = 429
                                   THEN now + r.retryAfter * 1000 ELSE NoDate,
                 ![ip].lockedUntil = IF locks THEN r.map[ip].blockedUntil ELSE @,
                 ![ip].lifted = IF locks THEN FALSE ELSE @]

\* the same next to a recorded outcome
SendTrace(ip, statusCode) ==
  hist' = [hist EXCEPT
             ![ip].retryAt = NoDate,
             ![ip].lifted = @ \/ statusCode \in {200, 201}]

\* the same when the clock advances to time t: a lockout that does not lie
\* ahead any more is forgotten
TickTrace(t) ==
  hist' = [c \in Clients |->
             IF hist[c].lockedUntil # NoDate /\ t >= hist[c].lockedUntil
               THEN [hist[c] EXCEPT !.lockedUntil = NoDate, !.lifted = FALSE]
               ELSE hist[c]]

\* one client, with its history
Next ==
  \/ \E body \in Bodies : Login("a", body, MaxInFlight) /\ LoginHist("a", body)
  \/ \E statusCode \in Statuses : Send("a", statusCode) /\ SendHist("a", statusCode)
  \/ Sweep /\ hist' = Settle(hist, loginAttempts')
  \/ Stats /\ UNCHANGED hist
  \/ \E d \in Steps : Tick(d, MaxTicks) /\ UNCHANGED hist

Spec == Init /\ [][Next]_vars

\* two clients; no history is kept
NextPair ==
  \/ \E ip \in Clients, body \in BodiesPair :
       Login(ip, body, MaxInFlightPair) /\ UNCHANGED hist
  \/ \E ip \in Clients, statusCode \in StatusesPair :
       Send(ip, statusCode) /\ UNCHANGED hist
  \/ Sweep /\ UNCHANGED hist
  \/ Stats /\ UNCHANGED hist
  \/ \E d \in StepsPair : Tick(d, MaxTicksPair) /\ UNCHANGED hist

SpecPair == Init /\ [][NextPair]_vars

\* one client whose record already counts n failures, all recorded at time 0
\* by requests that were in flight together; nothing else in flight
InitWide ==
  /\ loginAttempts \in {MapSet(EmptyMap, "a", [FreshAttempt(0) EXCEPT !.count = n]) :
                          n \in 1..MaxInitCount}
  /\ now = 0
  /\ ticks = 0
  /\ inflight = [c \in Clients |-> 0]
  /\ res = Quiet("init")
  /\ hist = [c \in Clients |->
              IF c = "a"
                THEN [NoHist EXCEPT !.streak = Min(loginAttempts[c].count, Threshold),
                                    !.failures = loginAttempts[c].count]
                ELSE NoHist]
  /\ user = NoUser
  /\ calls = [c \in Callers |-> IdleCall]

SpecWide == InitWide /\ [][Next]_vars

\* one client that sends many requests before the first is answered; no
\* history is kept
NextDeep ==
  \/ \E body \in BodiesPair :
       Login("a", body, MaxInFlightDeep) /\ UNCHANGED hist
  \/ \E statusCode \in StatusesPair :
       Send("a", statusCode) /\ UNCHANGED hist
  \/ Sweep /\ UNCHANGED hist
  \/ Stats /\ UNCHANGED hist
  \/ \E d \in Steps : Tick(d, MaxTicksDeep) /\ UNCHANGED hist

SpecDeep == Init /\ [][NextDeep]_vars

\* records of various ages, as the handlers leave them: counted once with no
\* lockout, or counted five times with no lockout yet or with the 15 minute
\* lockout assigned at the last attempt
AgedTimes ==
  {1000, WindowMs, WindowMs + 1000, RecentMs, RecentMs + 1000,
   MaxAgeMs, MaxAgeMs + 1000}
AgedRecords ==
  UNION {{[count |-> 1, lastAttempt |-> t, blockedUntil |-> NoDate],
          [count |-> Threshold, lastAttempt |-> t, blockedUntil |-> NoDate],
          [count |-> Threshold, lastAttempt |-> t,
           blockedUntil |-> t + blockMinutes(Threshold) * MinuteMs]} :
         t \in {0, 1000}}
AgedMaps ==
  UNION {[D -> AgedRecords] : D \in SUBSET Clients}

\* the map found by the hourly sweep and by the monitoring call: any of the
\* maps above at any of the times above, no request in flight
InitAged ==
  /\ loginAttempts \in AgedMaps
  /\ now \in AgedTimes
  /\ ticks = 0
  /\ inflight = [c \in Clients |-> 0]
  /\ res = Quiet("init")
  /\ hist = [c \in Clients |-> NoHist]
  /\ user = NoUser
  /\ calls = [c \in Callers |-> IdleCall]

NextAged ==
  \/ Sweep /\ UNCHANGED hist
  \/ Stats /\ UNCHANGED hist

SpecAged == InitAged /\ [][NextAged]_vars

\* one client, with the lockouts and answers it was given
NextTrace ==
  \/ \E body \in BodiesPair :
       Login("a", body, MaxInFlightTrace) /\ LoginTrace("a", body)
  \/ \E statusCode \in StatusesPair :
       Send("a", statusCode) /\ SendTrace("a", statusCode)
  \/ Sweep /\ UNCHANGED hist
  \/ Stats /\ UNCHANGED hist
  \/ \E d \in Steps : Tick(d, MaxTicksTrace) /\ TickTrace(now')

SpecTrace == Init /\ [][NextTrace]_vars

\* a request of a client that has no request unanswered
LoginAlone(ip, body) ==
  /\ inflight[ip] = 0
  /\ Login(ip, body, 1)

\* one client that waits for the answer to each request before it sends the
\* next; no history is kept
NextSerial ==
  \/ \E body \in Bodies : LoginAlone("a", body) /\ UNCHANGED hist
  \/ \E statusCode \in Statuses : Send("a", statusCode) /\ UNCHANGED hist
  \/ Sweep /\ UNCHANGED hist
  \/ Stats /\ UNCHANGED hist
  \/ \E d \in Steps : Tick(d, MaxTicksSerial) /\ UNCHANGED hist

SpecSerial == Init /\ [][NextSerial]_vars

\* the timer fires: an hour has passed and cleanOldAttempts runs
Interval(maxIntervals) ==
  /\ ticks < maxIntervals
  /\ now' = now + SweepEveryMs
  /\ ticks' = ticks + 1
  /\ loginAttempts' = cleanOldAttempts(loginAttempts, now')
  /\ res' = Quiet("interval")
  /\ UNCHANGED <<inflight, user, calls>>

\* no client sends anything any more: only the timer and the monitoring call
\* run, and the timer keeps firing
NextIdle ==
  \/ Interval(MaxIntervals) /\ UNCHANGED hist
  \/ Stats /\ UNCHANGED hist

SpecIdle ==
  /\ InitAged
  /\ [][NextIdle]_vars
  /\ WF_vars(Interval(MaxIntervals) /\ UNCHANGED hist)

\* the call passes validateUser and the checks of its inputs, up to its
\* first read of the users collection
StartCall(c) ==
  LET call == calls[c]
      status ==
        IF ~call.authorized THEN 403
        ELSE IF ~call.enabledIsBoolean THEN 400
        ELSE IF call.handler = "toggleModuleForAllStudents" /\ ~call.materiaOk
          THEN 404
        ELSE IF call.handler = "toggleModuleForAllStudents" /\ ~call.userHasCourse
          THEN 200
        ELSE 0
  IN  /\ call.pc = "start"
      /\ calls' = [calls EXCEPT ![c].pc = IF status = 0 THEN "get" ELSE "done",
                                ![c].status = status]
      /\ UNCHANGED <<loginAttempts, now, ticks, inflight, res, hist, user>>

\* await ...doc(id).get(): the call reads the document and sets the module
\* in its own copy of modulos_habilitados
GetUser(c) ==
  LET call == calls[c]
  IN  /\ call.pc = "get"
      /\ calls' =
           IF user.exists
             THEN [calls EXCEPT
                     ![c].pc = "update",
                     ![c].modulosHabilitados =
                        ModSet(user.modulos_habilitados, call.moduleId, call.enabled)]
             ELSE [calls EXCEPT
                     ![c].pc = "done",
                     ![c].status = IF call.handler = "updateStudentModule"
                                     THEN 404 ELSE 200]
      /\ UNCHANGED <<loginAttempts, now, ticks, inflight, res, hist, user>>

\* await userDoc.ref.update({ modulos_habilitados: modulosHabilitados, ... })
\* or batch.commit(): the field is replaced by the call's copy
UpdateUser(c) ==
  LET call == calls[c]
  IN  /\ call.pc = "update"
      /\ user' = [user EXCEPT !.modulos_habilitados = call.modulosHabilitados]
      /\ calls' = [calls EXCEPT ![c].pc = "done", ![c].status = 200,
                                ![c].wrote = TRUE]
      /\ UNCHANGED <<loginAttempts, now, ticks, inflight, res, hist>>

\* two administrator requests about the same user document, the second one
\* passing every check; no login is going on
InitModules ==
  /\ loginAttempts = EmptyMap
  /\ now = 0
  /\ ticks = 0
  /\ inflight = [c \in Clients |-> 0]
  /\ res = Quiet("init")
  /\ hist = [c \in Clients |-> NoHist]
  /\ user \in Users
  /\ calls \in {f \in [Callers -> Requests] : f["c2"] \in ValidRequests}

NextModules ==
  \/ \E c \in Callers : StartCall(c)
  \/ \E c \in Callers : GetUser(c)
  \/ \E c \in Callers : UpdateUser(c)

SpecModules == InitModules /\ [][NextModules]_vars

TypeOK ==
  /\ DOMAIN loginAttempts \subseteq Clients
  /\ \A ip \in DOMAIN loginAttempts :
       /\ loginAttempts[ip].count \in Nat \ {0}
       /\ loginAttempts[ip].lastAttempt \in 0..now
       /\ loginAttempts[ip].blockedUntil \in {NoDate} \cup Nat
  /\ inflight \in [Clients -> Nat]

(* ======================= properties of the guard ======================= *)
\* the words of the properties: the last step was a validateLogin call / a
\* recorded outcome of client res.ip, which had record Old before it and
\* has record New after it
WasLogin == res.op = "validateLogin"
WasOutcome == res.op = "send"
Had == res.ip \in DOMAIN res.before
Old == res.before[res.ip]
Has == res.ip \in DOMAIN loginAttempts
New == loginAttempts[res.ip]

FifteenMinutes == 900000
TwentyFourHours == 86400000

\* a lockout is in force at the time of the step
LockoutActive(rec) == rec.blockedUntil # NoDate /\ now < rec.blockedUntil

\* min(15 * ceil(n / 5), 60): the least of 15, 30, 45, 60 minutes that is at
\* least 3 minutes per counted failure, and 60 when there is none
LockMinutes(n) ==
  CHOOSE k \in {15, 30, 45, 60} :
    /\ k = 60 \/ 3 * n <= k
    /\ \A j \in {15, 30, 45} : 3 * n <= j => k <= j

C2_AsStated ==
  (WasLogin /\ res.hist.streak >= 5)
  => /\ res.status = 429
     /\ Has
     /\ New.blockedUntil # NoDate
     /\ New.blockedUntil > now

\* C2, amended: after 5 or more such failures, a validateLogin call that
\* comes at most 15 minutes after the last of them answers 429 and leaves
\* blockedUntil later than now; when the record counts exactly those 5
\* failures and was not locked yet, retryAfter is 900.
C2_MonotonicLockout ==
  (WasLogin /\ res.hist.streak >= 5 /\ now - res.hist.streakAt <= FifteenMinutes)
  => /\ res.status = 429
     /\ ~res.next
     /\ Has
     /\ New.blockedUntil # NoDate
     /\ New.blockedUntil > now
     /\ (Had /\ Old.count = 5 /\ Old.blockedUntil = NoDate) => res.retryAfter = 900

\* the sixth attempt, one second after five failures, was answered 429 / 900
C2_Witness ==
  /\ WasLogin
  /\ res.hist.streak >= 5
  /\ now - res.hist.streakAt = 1000
  /\ Had
  /\ Old.count = 5
  /\ Old.blockedUntil = NoDate
  /\ res.status = 429
  /\ res.retryAfter = 900
  /\ New.blockedUntil = now + FifteenMinutes

\* C3 as stated: while a lockout is in force validateLogin answers with
\* retryAfter = ceil((blockedUntil - now) / 1000), the remaining time rounded
\* up to the next whole second.
C3_AsStated ==
  (WasLogin /\ Had /\ LockoutActive(Old))
  => /\ res.status = 429
     /\ res.retryAfter * 1000 >= Old.blockedUntil - now
     /\ (res.retryAfter - 1) * 1000 < Old.blockedUntil - now

\* C3, amended: while a lockout is in force validateLogin answers 429 with
\* retryAfter = 60 * ceil((blockedUntil - now) / 60000), the remaining time
\* rounded up to the next whole minute, in seconds.
C3_RetryAfterWholeMinutes ==
  (WasLogin /\ Had /\ LockoutActive(Old))
  => /\ res.status = 429
     /\ res.retryAfter % 60 = 0
     /\ res.retryAfter * 1000 >= Old.blockedUntil - now
     /\ (res.retryAfter - 60) * 1000 < Old.blockedUntil - now

\* one second into a 15 minute lockout the answer is still 900
C3_Witness ==
  /\ WasLogin
  /\ Had
  /\ LockoutActive(Old)
  /\ Old.blockedUntil - now = 899000
  /\ res.status = 429
  /\ res.retryAfter = 900

\* C4: a validateLogin call rejected because a lockout is in force leaves the
\* whole map as it was, for a well-formed and for a malformed body alike.
C4_RejectionHasNoSideEffect ==
  (WasLogin /\ Had /\ LockoutActive(Old))
  => /\ res.status = 429
     /\ ~res.next
     /\ loginAttempts = res.before

\* a malformed request of a locked client was rejected while the other client
\* had a record too
C4_Witness ==
  /\ WasLogin
  /\ Had
  /\ LockoutActive(Old)
  /\ ~res.wellFormed
  /\ res.status = 429
  /\ DOMAIN res.before = Clients
  /\ loginAttempts = res.before

\* C5: when a response with status 200 or 201 is sent for a client its
\* record is deleted, whatever it held, and a well-formed validateLogin call
\* of that client that comes next is admitted and leaves the record absent.
C5_SuccessClears ==
  [][/\ (res'.op = "send" /\ res'.status \in {200, 201})
          => res'.ip \notin DOMAIN loginAttempts'
     /\ (/\ WasOutcome
         /\ res.status \in {200, 201}
         /\ res'.op = "validateLogin"
         /\ res'.ip = res.ip
         /\ res'.wellFormed)
          => /\ res'.next
             /\ res'.status = 0
             /\ res.ip \notin DOMAIN loginAttempts']_vars

\* a success was recorded for a client locked out with 5 failures counted
C5_Witness ==
  /\ WasOutcome
  /\ res.status = 200
  /\ Had
  /\ Old.count >= 5
  /\ LockoutActive(Old)
  /\ ~Has

\* C6: a well-formed validateLogin call that finds a record with no lockout
\* in force and last attempt more than 15 minutes ago deletes the record and
\* admits the request, whatever the count; at exactly 15 minutes the record
\* is kept and treated as any record inside the window.
C6_IdleReset ==
  (WasLogin /\ Had /\ ~LockoutActive(Old))
  => /\ (now - Old.lastAttempt > FifteenMinutes /\ res.wellFormed)
          => (res.next /\ res.status = 0 /\ ~Has)
     /\ (now - Old.lastAttempt = FifteenMinutes)
          => /\ Has
             /\ (Old.count >= 5) => (res.status = 429 /\ New.count = Old.count)
             /\ (Old.count < 5 /\ res.wellFormed) => (res.next /\ New = Old)
             /\ (Old.count < 5 /\ ~res.wellFormed) => New.count = Old.count + 1

\* a record counting 5 failures or more, idle for more than 15 minutes, was
\* purged and the request admitted
C6_Witness ==
  /\ WasLogin
  /\ Had
  /\ Old.count >= 5
  /\ ~LockoutActive(Old)
  /\ now - Old.lastAttempt > FifteenMinutes
  /\ res.wellFormed
  /\ res.next
  /\ ~Has

\* C7: once now >= blockedUntil, and no failure has been recorded for the
\* client since the lockout was set, a well-formed validateLogin call is not
\* answered 429.
C7_LockoutExpiry ==
  (/\ WasLogin
   /\ res.wellFormed
   /\ Had
   /\ Old.blockedUntil # NoDate
   /\ now >= Old.blockedUntil
   /\ ~res.hist.failedSinceLock)
  => res.status # 429

\* C8: validateLogin and the recorded outcome of one client never create,
\* change or delete the record of another client.
C8_Independence ==
  (WasLogin \/ WasOutcome)
  => \A c \in Clients \ {res.ip} :
       /\ c \in DOMAIN loginAttempts <=> c \in DOMAIN res.before
       /\ c \in DOMAIN loginAttempts => loginAttempts[c] = res.before[c]

\* a client's record was deleted by its success while the other client's
\* locked record stayed
C8_Witness ==
  /\ WasOutcome
  /\ DOMAIN res.before = Clients
  /\ DOMAIN loginAttempts = Clients \ {res.ip}
  /\ \E c \in DOMAIN loginAttempts : LockoutActive(loginAttempts[c])

\* C9: after cleanOldAttempts the map holds exactly the records whose last
\* attempt is at most 24 hours old, each unchanged, whatever their lockout.
C9_Sweep ==
  (res.op = "sweep")
  => \A c \in Clients :
       /\ c \in DOMAIN loginAttempts
            <=> /\ c \in DOMAIN res.before
                /\ now - res.before[c].lastAttempt <= TwentyFourHours
       /\ c \in DOMAIN loginAttempts => loginAttempts[c] = res.before[c]

\* the sweep removed a record that held an expired lockout and kept another
C9_Witness ==
  /\ res.op = "sweep"
  /\ \E c \in DOMAIN res.before :
       /\ c \notin DOMAIN loginAttempts
       /\ res.before[c].blockedUntil # NoDate
  /\ \E c \in DOMAIN res.before : c \in DOMAIN loginAttempts

\* C10: a malformed login that the lockout and threshold checks let through
\* is answered 400 without calling next(), and is counted: the record left
\* by those checks gets count + 1 (a record with count 1 is created when
\* there is none, also when the idle reset just deleted it) and lastAttempt
\* = now.
C10_MalformedCounted ==
  (WasLogin /\ ~res.wellFormed /\ res.status # 429)
  => /\ res.status = 400
     /\ ~res.next
     /\ Has
     /\ New.lastAttempt = now
     /\ New.count = IF Had /\ now - Old.lastAttempt <= FifteenMinutes
                      THEN Old.count + 1 ELSE 1
     /\ ~Had => New = [count |-> 1, lastAttempt |-> now, blockedUntil |-> NoDate]

\* a malformed request raised a count of 3 to 4
C10_Witness ==
  /\ WasLogin
  /\ ~res.wellFormed
  /\ res.status = 400
  /\ Had
  /\ Old.count = 3
  /\ New.count = 4
  /\ New.lastAttempt = now
  /\ Old.lastAttempt < now

\* C11: when a response with status 401 or 403 is sent for a client, its
\* record is created with count 1 if it had none and gets count + 1
\* otherwise; lastAttempt is set to now; blockedUntil is left as it was
\* (absent on a new record), so the failure that brings the count to 5
\* leaves the record without a blockedUntil.
C11_FailureRecorded ==
  (WasOutcome /\ res.status \in {401, 403})
  => /\ Has
     /\ New.count = IF Had THEN Old.count + 1 ELSE 1
     /\ New.lastAttempt = now
     /\ New.blockedUntil = IF Had THEN Old.blockedUntil ELSE NoDate
     /\ New.count = 5 => New.blockedUntil = NoDate

\* the fifth failure was recorded, later than the fourth, and left no lockout
C11_Witness ==
  /\ WasOutcome
  /\ res.status = 401
  /\ Had
  /\ Old.count = 4
  /\ Old.lastAttempt < now
  /\ New.count = 5
  /\ New.lastAttempt = now
  /\ New.blockedUntil = NoDate

\* C12: when a response with status 503, or any status other than 200, 201,
\* 401 and 403, is sent for an admitted request, the map is left exactly as
\* it was.
C12_OtherStatusNoEffect ==
  (WasOutcome /\ res.status \notin {200, 201, 401, 403})
  => loginAttempts = res.before

\* a 503 was sent for a client with failures counted; its record stayed
C12_Witness ==
  /\ WasOutcome
  /\ res.status = 503
  /\ Had
  /\ Old.count >= 2
  /\ Has
  /\ New = Old

\* the validateLogin call found a record idle for more than 15 minutes with
\* no lockout in force, and deleted it (a malformed request then starts a
\* new record in the same call)
IdlePurge ==
  /\ WasLogin
  /\ Had
  /\ ~LockoutActive(Old)
  /\ now - Old.lastAttempt > FifteenMinutes

\* C13: no step (validateLogin, a recorded outcome, the sweep, the stats, the
\* clock advancing) replaces the blockedUntil of a record by an earlier time
\* or unsets it, as long as the record exists: the record is either deleted
\* by the step or holds a blockedUntil at least as late as before.
C13_BlockedUntilNeverDecreases ==
  \A c \in DOMAIN res.before \cap DOMAIN loginAttempts :
    (res.before[c].blockedUntil # NoDate /\ ~(c = res.ip /\ IdlePurge))
    => /\ loginAttempts[c].blockedUntil # NoDate
       /\ loginAttempts[c].blockedUntil >= res.before[c].blockedUntil

\* a validateLogin call replaced the blockedUntil of a record by a later one
C13_Witness ==
  /\ WasLogin
  /\ Had
  /\ Has
  /\ Old.blockedUntil # NoDate
  /\ New.blockedUntil > Old.blockedUntil
  /\ New.count = Old.count

OneHour == 3600000

\* C14: getLoginStats leaves the map as it is and returns the number of
\* records, the number of records whose blockedUntil is later than now, and
\* the number of records whose lastAttempt is less than one hour before now.
C14_StatsReadOnly ==
  (res.op = "stats")
  => /\ loginAttempts = res.before
     /\ res.stats.totalAttempts = Cardinality(DOMAIN loginAttempts)
     /\ res.stats.blockedIPs =
          Cardinality({c \in DOMAIN loginAttempts :
                         /\ loginAttempts[c].blockedUntil # NoDate
                         /\ loginAttempts[c].blockedUntil > now})
     /\ res.stats.recentAttempts =
          Cardinality({c \in DOMAIN loginAttempts :
                         now - loginAttempts[c].lastAttempt < OneHour})

\* the stats of two records, one attempted exactly an hour ago and one a
\* second later: only the second counts as recent
C14_Witness ==
  /\ res.op = "stats"
  /\ res.stats.totalAttempts = 2
  /\ res.stats.recentAttempts = 1
  /\ \E c \in DOMAIN loginAttempts : now - loginAttempts[c].lastAttempt = OneHour

\* C15: when validateLogin calls next() the client has no lockout in force
\* and either no record (none before, or the idle record just deleted) or a
\* record with count < 5; a request that finds count >= 5 with the last
\* attempt at most 15 minutes ago is never passed on.
C15_AdmittedBelowThreshold ==
  WasLogin
  => /\ res.next => /\ ~(Had /\ LockoutActive(Old))
                    /\ ~Has \/ (New.count < 5 /\ ~LockoutActive(New))
                    /\ (Had /\ Has) => New = Old
                    /\ (Had /\ ~Has) => now - Old.lastAttempt > FifteenMinutes
     /\ (Had /\ Old.count >= 5 /\ now - Old.lastAttempt <= FifteenMinutes)
          => ~res.next

\* a request was passed on for a client with 4 failures counted, while
\* another of its requests was still unanswered
C15_Witness ==
  /\ WasLogin
  /\ res.next
  /\ Had
  /\ Old.count = 4
  /\ Has
  /\ New = Old
  /\ inflight[res.ip] >= 2

\* C16: cleanOldAttempts is idempotent: the map a sweep leaves is the map
\* one application gives, and applying the sweep to it again at the same
\* time gives the same map.
C16_SweepIdempotent ==
  (res.op = "sweep")
  => /\ loginAttempts = cleanOldAttempts(res.before, now)
     /\ cleanOldAttempts(loginAttempts, now) = loginAttempts

\* one sweep removed the records of both clients
C16_Witness ==
  /\ res.op = "sweep"
  /\ DOMAIN res.before = Clients
  /\ DOMAIN loginAttempts = {}
  /\ \A c \in Clients : now - res.before[c].lastAttempt > TwentyFourHours

\* C17: in every reachable state, for every client and every body, running
\* cleanOldAttempts right before validateLogin changes neither the answer
\* (admitted, 400, or 429 and its retryAfter) nor the record the call leaves
\* for that client.
C17_SweepBeforeLogin ==
  \A ip \in Clients, body \in Bodies :
    LET direct == validateLogin(loginAttempts, ip, body, now)
        swept == validateLogin(cleanOldAttempts(loginAttempts, now), ip, body, now)
    IN  /\ direct.status = swept.status
        /\ direct.retryAfter = swept.retryAfter
        /\ direct.next = swept.next
        /\ MapHas(direct.map, ip) <=> MapHas(swept.map, ip)
        /\ MapHas(direct.map, ip) => direct.map[ip] = swept.map[ip]

\* validateLogin ran, with no sweep before it, on a record more than 24
\* hours old that held an expired lockout: it deleted the record and passed
\* the request on, as it would have after a sweep
C17_Witness ==
  /\ WasLogin
  /\ Had
  /\ now - Old.lastAttempt > TwentyFourHours
  /\ Old.blockedUntil # NoDate
  /\ cleanOldAttempts(res.before, now) # res.before
  /\ res.next
  /\ ~Has

\* C18: a validateLogin call that finds a record whose lockout has expired
\* (now >= blockedUntil) does not delete the record and retains its count.
C18_ExpiredLockoutKeepsCount ==
  (WasLogin /\ Had /\ Old.blockedUntil # NoDate /\ now >= Old.blockedUntil)
  => /\ Has
     /\ New.count >= Old.count

\* C19: a record reaches count 10 by validateLogin calls and recorded
\* outcomes alone; a count grows past 5 only by a recorded 401 or 403, and
\* the validateLogin call that then triggers the lockout (count 6 to 10, no
\* lockout in force, last attempt at most 15 minutes ago) sets it to 30
\* minutes and answers retryAfter 1800.
C19_DeepLockout ==
  /\ (Had /\ Has /\ Old.count >= 5 /\ New.count > Old.count)
       => (WasOutcome /\ res.status \in {401, 403})
  /\ (/\ WasLogin
      /\ Had
      /\ Old.count \in 6..10
      /\ ~LockoutActive(Old)
      /\ now - Old.lastAttempt <= FifteenMinutes)
       => /\ res.status = 429
          /\ res.retryAfter = 1800
          /\ Has
          /\ New.count = Old.count
          /\ New.blockedUntil = now + 1800000

\* from the empty map a record reached count 10, and the next validateLogin
\* call locked it for 30 minutes
C19_Witness ==
  /\ WasLogin
  /\ Had
  /\ Old.count = 10
  /\ Old.blockedUntil = NoDate
  /\ res.status = 429
  /\ res.retryAfter = 1800
  /\ New.count >= 10
  /\ New.blockedUntil - now > FifteenMinutes

\* C20: every record in the map has count >= 1, and its count is the number
\* of failures (malformed attempts answered 400, outcomes 401 and 403)
\* recorded for the client since the record was created.
C20_CountIsFailures ==
  \A c \in DOMAIN loginAttempts :
    /\ loginAttempts[c].count >= 1
    /\ loginAttempts[c].count = hist[c].failures

\* a record that counted failures of both kinds was deleted after 15 idle
\* minutes and a new one started by a malformed attempt of the same call
C20_Witness ==
  /\ WasLogin
  /\ res.status = 400
  /\ IdlePurge
  /\ Old.count >= 3
  /\ res.hist.failures = Old.count
  /\ Has
  /\ New.count = 1
  /\ hist[res.ip].failures = 1

\* C21: a record is created only by a failed attempt: a key enters the map
\* only by a validateLogin call answered 400 or by a recorded 401 or 403; a
\* validateLogin call that admits a request adds no key and, unless it
\* deletes the idle record, leaves the record of the client exactly as it
\* was (lastAttempt is not refreshed).
C21_CreatedOnlyByFailure ==
  /\ (DOMAIN loginAttempts \ DOMAIN res.before # {})
       => /\ DOMAIN loginAttempts \ DOMAIN res.before = {res.ip}
          /\ \/ WasLogin /\ res.status = 400
             \/ WasOutcome /\ res.status \in {401, 403}
  /\ (WasLogin /\ res.next)
       => /\ DOMAIN loginAttempts \subseteq DOMAIN res.before
          /\ (Had /\ ~IdlePurge) => (Has /\ New = Old)
          /\ (Had /\ IdlePurge) => ~Has
          /\ \A c \in DOMAIN loginAttempts : loginAttempts[c] = res.before[c]

\* a request was admitted some time after the last failure of its client
\* and the record kept its lastAttempt
C21_Witness ==
  /\ WasLogin
  /\ res.next
  /\ Had
  /\ Has
  /\ New = Old
  /\ Old.lastAttempt < now

\* the step recorded a failure of client res.ip
WasFailure ==
  \/ WasLogin /\ res.status = 400
  \/ WasOutcome /\ res.status \in {401, 403}

\* C22: no update is lost: two failures of a client recorded one right
\* after the other, in any order and whatever other requests of the client
\* are still unanswered, raise its count by exactly 2 (from 0 when the first
\* of them started a new record), the second starting from the map the
\* first one left.
C22_NoLostUpdate ==
  [][(/\ WasFailure
      /\ \/ res'.op = "validateLogin" /\ res'.status = 400
         \/ res'.op = "send" /\ res'.status \in {401, 403}
      /\ res'.ip = res.ip)
     => /\ res'.before = loginAttempts
        /\ Has
        /\ res.ip \in DOMAIN loginAttempts'
        /\ loginAttempts'[res.ip].count =
             (IF Had /\ ~IdlePurge THEN Old.count ELSE 0) + 2
        /\ loginAttempts'[res.ip].count = New.count + 1]_vars

\* a failure was recorded on a count of 6 or more, itself raised past 5 by
\* recorded outcomes, while another request of the client was unanswered
C22_Witness ==
  /\ WasOutcome
  /\ res.status = 401
  /\ Had
  /\ Old.count >= 6
  /\ New.count = Old.count + 1
  /\ inflight[res.ip] >= 1

\* C23: with no further attempts and the timer firing every hour, every
\* record in the map is eventually removed by the sweep, and after each
\* firing no record older than 24 hours is left.
C23_EventuallySwept ==
  /\ \A c \in Clients :
       (c \in DOMAIN loginAttempts) ~> (c \notin DOMAIN loginAttempts)
  /\ [](res.op = "interval"
         => \A c \in DOMAIN loginAttempts :
              now - loginAttempts[c].lastAttempt <= TwentyFourHours)

\* the 25th firing or a later one removed the last record, which earlier
\* firings had found too recent
C23_Witness ==
  /\ res.op = "interval"
  /\ ticks >= 25
  /\ DOMAIN res.before # {}
  /\ DOMAIN loginAttempts = {}

\* C24: every record that holds a blockedUntil, in force or expired, has
\* count >= 5.
C24_LockedMeansOverThreshold ==
  \A c \in DOMAIN loginAttempts :
    loginAttempts[c].blockedUntil # NoDate => loginAttempts[c].count >= 5

\* a record holds an expired lockout and a count raised since it was set
C24_Witness ==
  /\ WasOutcome
  /\ res.status \in {401, 403}
  /\ Has
  /\ New.blockedUntil # NoDate
  /\ now >= New.blockedUntil
  /\ New.count >= 6

SixtyMinutes == 3600000

\* C25: the blockedUntil of a record is at most 60 minutes after its
\* lastAttempt; so no record is both locked (now < blockedUntil) and more
\* than 24 hours old, and the sweep never removes a record whose lockout is
\* in force.
C25_LockWithinTheHour ==
  /\ \A c \in DOMAIN loginAttempts :
       /\ loginAttempts[c].blockedUntil # NoDate
            => loginAttempts[c].blockedUntil - loginAttempts[c].lastAttempt
                 <= SixtyMinutes
       /\ ~(/\ LockoutActive(loginAttempts[c])
            /\ now - loginAttempts[c].lastAttempt > TwentyFourHours)
  /\ (res.op = "sweep")
       => \A c \in DOMAIN res.before \ DOMAIN loginAttempts :
            ~LockoutActive(res.before[c])

\* a record was locked for the full hour, some time after its last failure
C25_Witness ==
  /\ WasLogin
  /\ Had
  /\ Has
  /\ Old.lastAttempt < now
  /\ New.blockedUntil - New.lastAttempt = SixtyMinutes
  /\ LockoutActive(New)

\* C26: when the requests of a client do not overlap, its count never
\* exceeds 5 and every lockout set for it lasts exactly 15 minutes.
C26_SerialClient ==
  /\ \A c \in DOMAIN loginAttempts :
       /\ loginAttempts[c].count <= 5
       /\ loginAttempts[c].blockedUntil # NoDate
            => loginAttempts[c].blockedUntil - loginAttempts[c].lastAttempt
                 = FifteenMinutes
  /\ (WasLogin /\ res.status = 429) => res.retryAfter <= 900
  /\ (WasLogin /\ Has /\ New.blockedUntil # NoDate /\ (Had => New # Old))
       => New.blockedUntil = now + FifteenMinutes

\* a record that counted 5 failures, the last of them some time ago, was
\* locked for 15 minutes by the next request
C26_Witness ==
  /\ WasLogin
  /\ res.status = 429
  /\ res.retryAfter = 900
  /\ Had
  /\ Old.count = 5
  /\ Old.blockedUntil = NoDate
  /\ Old.lastAttempt < now
  /\ New.blockedUntil = now + FifteenMinutes

\* C27: a client that was answered 429 with retryAfter = r at time t, and
\* of which nothing has run since, is admitted, and not answered 429, when
\* it sends a well-formed request at any time >= t + r seconds.
C27_RetryAfterHonoured ==
  (/\ WasLogin
   /\ res.wellFormed
   /\ res.hist.retryAt # NoDate
   /\ now >= res.hist.retryAt)
  => /\ res.next
     /\ res.status # 429

\* C28 as stated: once validateLogin has set blockedUntil = B for a client,
\* no request of that client is admitted before B, whatever outcomes are
\* recorded after the lockout was set.
C28_AsStated ==
  (WasLogin /\ res.hist.lockedUntil # NoDate /\ now < res.hist.lockedUntil)
  => ~res.next

\* C28, amended: once validateLogin has set blockedUntil = B for a client,
\* every request of that client before B is answered 429 and not admitted,
\* unless a success (200 or 201) of a request admitted before the lockout
\* was recorded after it was set; failures and other answers recorded after
\* it do not lift it.
C28_LockoutNotLiftedEarly ==
  (/\ WasLogin
   /\ res.hist.lockedUntil # NoDate
   /\ now < res.hist.lockedUntil
   /\ ~res.hist.lifted)
  => /\ ~res.next
     /\ res.status = 429
     /\ Had
     /\ Old.blockedUntil >= res.hist.lockedUntil

\* a failure was recorded after the lockout was set, and a request that
\* came later, before B, was rejected
C28_Witness ==
  /\ WasLogin
  /\ res.hist.lockedUntil # NoDate
  /\ now < res.hist.lockedUntil
  /\ ~res.hist.lifted
  /\ res.status = 429
  /\ Had
  /\ Old.blockedUntil = res.hist.lockedUntil
  /\ Old.blockedUntil - Old.lastAttempt < FifteenMinutes
  /\ Old.lastAttempt < now

\* C29: a malformed request that finds a record idle for more than 15
\* minutes (no lockout in force) ends with a new record of count exactly 1,
\* lastAttempt = now and no blockedUntil: nothing of the deleted record is
\* carried over.
C29_FreshAfterPurge ==
  (IdlePurge /\ ~res.wellFormed)
  => /\ res.status = 400
     /\ ~res.next
     /\ Has
     /\ New = [count |-> 1, lastAttempt |-> now, blockedUntil |-> NoDate]

\* the deleted record counted 5 or more failures and held an expired lockout
C29_Witness ==
  /\ IdlePurge
  /\ ~res.wellFormed
  /\ Old.count >= 5
  /\ Old.blockedUntil # NoDate
  /\ Has
  /\ New.count = 1
  /\ New.blockedUntil = NoDate

\* C30: when two module requests about the same user document (an
\* updateStudentModule and a toggleModuleForAllStudents, or two
\* updateStudentModule) set different module ids and both have completed
\* their update, modulos_habilitados holds both new values.
C30_BothUpdatesKept ==
  (/\ \A c \in Callers : calls[c].pc = "done" /\ calls[c].wrote
   /\ calls["c1"].moduleId # calls["c2"].moduleId)
  => \A c \in Callers :
       /\ calls[c].moduleId \in DOMAIN user.modulos_habilitados
       /\ user.modulos_habilitados[calls[c].moduleId] = calls[c].enabled

====
